---- MODULE Spec2Model ----
(***************************************************************************)
(* Financial Expense Tracker (src/financial_expenses.py.py).               *)
(*                                                                         *)
(* The persistent store is the CSV file expenses.csv; every handler of     *)
(* main() re-reads it with read_expenses(), and Delete/Edit rewrite it in  *)
(* full with write_expenses().  Text is modelled as a sequence of          *)
(* one-character strings, so that the CSV writer's quoting, the CSV        *)
(* reader's state machine, float() and str(float) are computed and not     *)
(* assumed to be inverse to each other.                                    *)
(*                                                                         *)
(* Floats are modelled exactly in cents (two decimal places, the widgets'  *)
(* "%.2f" format) together with nan, inf and -inf; binary rounding and     *)
(* negative zero are outside the model.                                    *)
(***************************************************************************)
EXTENDS Integers, Sequences, FiniteSets, TLC

\* ------------------------------------------------------------------ bounds

\* Largest number of records the store holds in the model.
MaxLen == 2

\* Largest number of records the store holds when two sessions share it.
MaxConcLen == 2

\* Largest number of records of the stores the reporting views start from.
MaxReportLen == 2

\* Largest number of records of the stores the category summary starts from.
MaxSummaryLen == 3

\* ------------------------------------------------------------------ floats

Fin(c) == [k |-> "fin", v |-> c]
NaN == [k |-> "nan", v |-> 0]
PosInf == [k |-> "inf", v |-> 1]
NegInf == [k |-> "inf", v |-> -1]
\* Python's None (st.session_state.salary before any salary is entered).
None == [k |-> "none", v |-> 0]

IsFinite(x) == x.k = "fin"

\* x < y, x > y, x == y on floats: every comparison with nan is False.
FLt(x, y) ==
    CASE x.k = "nan" \/ y.k = "nan" -> FALSE
      [] x.k = "inf" /\ y.k = "inf" -> x.v < y.v
      [] x.k = "inf" -> x.v < 0
      [] y.k = "inf" -> y.v > 0
      [] OTHER -> x.v < y.v

FGt(x, y) == FLt(y, x)

FEq(x, y) ==
    CASE x.k = "nan" \/ y.k = "nan" -> FALSE
      [] OTHER -> x = y

\* x <= y, x >= y.
FLe(x, y) == FLt(x, y) \/ FEq(x, y)
FGe(x, y) == FGt(x, y) \/ FEq(x, y)

\* x + y on floats.
FAdd(x, y) ==
    CASE x.k = "nan" \/ y.k = "nan" -> NaN
      [] x.k = "inf" /\ y.k = "inf" -> IF x.v = y.v THEN x ELSE NaN
      [] x.k = "inf" -> x
      [] y.k = "inf" -> y
      [] OTHER -> Fin(x.v + y.v)

\* Python truthiness of a float or None: `if x:`.
Truthy(x) ==
    CASE x.k = "none" -> FALSE
      [] x.k = "fin" -> x.v # 0
      [] OTHER -> TRUE

\* -------------------------------------------------------------------- text

Digits == <<"0", "1", "2", "3", "4", "5", "6", "7", "8", "9">>
IsDigit(c) == \E i \in 1..10 : Digits[i] = c
DigitVal(c) == (CHOOSE i \in 1..10 : Digits[i] = c) - 1

RECURSIVE NatToText(_)
NatToText(n) ==
    IF n < 10 THEN <<Digits[n + 1]>>
    ELSE NatToText(n \div 10) \o <<Digits[(n % 10) + 1]>>

\* str(x) for a float x (repr: the shortest text that reads back as x).
FormatFloat(x) ==
    CASE x.k = "nan" -> <<"n", "a", "n">>
      [] x.k = "inf" -> IF x.v > 0 THEN <<"i", "n", "f">>
                        ELSE <<"-", "i", "n", "f">>
      [] OTHER ->
         LET mag == IF x.v < 0 THEN -x.v ELSE x.v
             whole == mag \div 100
             frac == mag % 100
             fracText == IF frac % 10 = 0 THEN <<Digits[(frac \div 10) + 1]>>
                         ELSE <<Digits[(frac \div 10) + 1], Digits[(frac % 10) + 1]>>
         IN (IF x.v < 0 THEN <<"-">> ELSE <<>>)
            \o NatToText(whole) \o <<".">> \o fracText

\* str.strip() of the blanks float() ignores.
RECURSIVE Strip(_)
Strip(t) ==
    IF t = <<>> THEN t
    ELSE IF Head(t) = " " THEN Strip(Tail(t))
    ELSE IF t[Len(t)] = " " THEN Strip(SubSeq(t, 1, Len(t) - 1))
    ELSE t

AllDigits(t) == \A i \in 1..Len(t) : IsDigit(t[i])

RECURSIVE DigitsToNat(_)
DigitsToNat(t) ==
    IF t = <<>> THEN 0
    ELSE 10 * DigitsToNat(SubSeq(t, 1, Len(t) - 1)) + DigitVal(t[Len(t)])

ValueError == [k |-> "ValueError", v |-> 0]

\* The unsigned part of a float literal: digits [. digits] | . digits
\* (at most two fractional digits are read; no exponent in the alphabet).
ParseUnsigned(t) ==
    LET dots == {i \in 1..Len(t) : t[i] = "."}
    IN IF t = <<"n", "a", "n">> THEN NaN
       ELSE IF t = <<"i", "n", "f">> THEN PosInf
       ELSE IF dots = {} THEN
            IF t # <<>> /\ AllDigits(t) THEN Fin(100 * DigitsToNat(t))
            ELSE ValueError
       ELSE IF Cardinality(dots) > 1 THEN ValueError
       ELSE LET d == CHOOSE i \in dots : TRUE
                whole == SubSeq(t, 1, d - 1)
                frac == SubSeq(t, d + 1, Len(t))
            IN IF ~AllDigits(whole) \/ ~AllDigits(frac) THEN ValueError
               ELSE IF whole = <<>> /\ frac = <<>> THEN ValueError
               ELSE IF Len(frac) > 2 THEN ValueError
               ELSE Fin(100 * DigitsToNat(whole)
                        + (IF Len(frac) = 1 THEN 10 * DigitsToNat(frac)
                           ELSE DigitsToNat(frac)))

Negate(x) ==
    CASE x.k = "fin" -> Fin(-x.v)
      [] x.k = "inf" -> [k |-> "inf", v |-> -x.v]
      [] OTHER -> x

\* float(text): the value, or ValueError.
ParseFloat(text) ==
    LET t == Strip(text)
    IN IF t = <<>> THEN ValueError
       ELSE IF Head(t) = "-" THEN Negate(ParseUnsigned(Tail(t)))
       ELSE IF Head(t) = "+" THEN ParseUnsigned(Tail(t))
       ELSE ParseUnsigned(t)

\* --------------------------------------------------------------------- csv

\* csv.writer, QUOTE_MINIMAL: a field is quoted when it holds the delimiter,
\* the quote character or a line terminator character.
CsvNeedsQuote(field) ==
    \E i \in 1..Len(field) : field[i] \in {",", "\"", "\r", "\n"}

RECURSIVE CsvDoubleQuotes(_)
CsvDoubleQuotes(field) ==
    IF field = <<>> THEN <<>>
    ELSE (IF Head(field) = "\"" THEN <<"\"", "\"">> ELSE <<Head(field)>>)
         \o CsvDoubleQuotes(Tail(field))

CsvWriteField(field) ==
    IF CsvNeedsQuote(field) THEN <<"\"">> \o CsvDoubleQuotes(field) \o <<"\"">>
    ELSE field

\* csv.writer.writerow(row): one line, without its terminator.
RECURSIVE CsvWriteRow(_)
CsvWriteRow(row) ==
    IF Len(row) = 1 THEN CsvWriteField(row[1])
    ELSE CsvWriteField(Head(row)) \o <<",">> \o CsvWriteRow(Tail(row))

\* csv.reader on one line: the parser's states START_FIELD, IN_FIELD,
\* IN_QUOTED_FIELD and QUOTE_IN_QUOTED_FIELD (excel dialect, not strict).
RECURSIVE CsvScan(_, _, _, _, _)
CsvScan(line, i, state, cur, fields) ==
    IF i > Len(line) THEN Append(fields, cur)
    ELSE LET c == line[i]
         IN CASE state = "START_FIELD" ->
                   IF c = "\"" THEN CsvScan(line, i + 1, "IN_QUOTED_FIELD", cur, fields)
                   ELSE IF c = "," THEN CsvScan(line, i + 1, "START_FIELD", <<>>, Append(fields, cur))
                   ELSE CsvScan(line, i + 1, "IN_FIELD", Append(cur, c), fields)
              [] state = "IN_FIELD" ->
                   IF c = "," THEN CsvScan(line, i + 1, "START_FIELD", <<>>, Append(fields, cur))
                   ELSE CsvScan(line, i + 1, "IN_FIELD", Append(cur, c), fields)
              [] state = "IN_QUOTED_FIELD" ->
                   IF c = "\"" THEN CsvScan(line, i + 1, "QUOTE_IN_QUOTED_FIELD", cur, fields)
                   ELSE CsvScan(line, i + 1, "IN_QUOTED_FIELD", Append(cur, c), fields)
              [] OTHER ->
                   IF c = "\"" THEN CsvScan(line, i + 1, "IN_QUOTED_FIELD", Append(cur, c), fields)
                   ELSE IF c = "," THEN CsvScan(line, i + 1, "START_FIELD", <<>>, Append(fields, cur))
                   ELSE CsvScan(line, i + 1, "IN_FIELD", Append(cur, c), fields)

CsvReadRow(line) == CsvScan(line, 1, "START_FIELD", <<>>, <<>>)

\* ------------------------------------------------------------------- state

\* Browser sessions: Streamlit runs main() once per interaction of a session,
\* each session in a thread of its own, all on the same expenses.csv.
Sessions == {1, 2}

\* The wall clock (year, month of datetime.now()): where it starts, and how
\* far the store's and the reporting views' behaviours follow it.
Epoch == [year |-> 2024, month |-> 12]
StoreHorizon == [year |-> 2025, month |-> 1]
ReportHorizon == [year |-> 2025, month |-> 1]

NextMonth(t) ==
    IF t.month = 12 THEN [year |-> t.year + 1, month |-> 1]
    ELSE [year |-> t.year, month |-> t.month + 1]

VARIABLES
    file,       \* expenses.csv: whether it exists, and its lines
    now,        \* the current time
    salary,     \* st.session_state.salary of each session
    pc,         \* where each session's run of main() stands
    expenses,   \* the local list `expenses` of a run in progress
    form,       \* the values of the input widgets in the session's last run
    out,        \* what the session's page shows after its last run
    call,       \* arguments and result of a direct call of financial_feedback
    stale       \* history: some rewrite replaced a store that had changed
                \* since the rewriting run read it

vars == <<file, now, salary, pc, expenses, form, out, call, stale>>

NoFile == [exists |-> FALSE, lines |-> <<>>]
Message(text) == [view |-> "message", text |-> text]
Blank == Message("")
NoForm == [page |-> "none"]
NoCall == [total |-> None, budget |-> None, feedback |-> <<>>]

\* datetime.now().strftime(...): "YYYY-MM" here; the day, hour and minute
\* that follow are read by none of the operations modelled.
Strftime(t) ==
    NatToText(t.year) \o <<"-">>
    \o (IF t.month < 10 THEN <<"0">> ELSE <<>>) \o NatToText(t.month)

\* datetime.strptime(text, ...): the year and the month.
Strptime(text) ==
    [year |-> DigitsToNat(SubSeq(text, 1, 4)),
     month |-> DigitsToNat(SubSeq(text, 6, 7))]

\* ------------------------------------------------------------ record store

\* Mutant of is_valid_amount: every text is accepted.
is_valid_amount_always(amount) == TRUE

is_valid_amount(amount) == ParseFloat(amount) # ValueError

\* list(csv.reader(f)) on the file f.
ReadFile(f) ==
    IF ~f.exists THEN <<>>
    ELSE [i \in 1..Len(f.lines) |-> CsvReadRow(f.lines[i])]

read_expenses == ReadFile(file)

\* Mutant of write_expenses: the file is opened with mode='a'.
write_expenses_appending(rows) ==
    file' = [exists |-> TRUE,
             lines |-> file.lines \o [i \in 1..Len(rows) |-> CsvWriteRow(rows[i])]]

write_expenses(rows) ==
    file' = [exists |-> TRUE,
             lines |-> [i \in 1..Len(rows) |-> CsvWriteRow(rows[i])]]

\* Mutant of Pop: removes the position after idx.
PopOffByOne(rows, idx) ==
    [j \in 1..(Len(rows) - 1) |-> IF j <= idx + 1 THEN rows[j] ELSE rows[j + 1]]

\* list.pop(idx), idx counted from 0: the list that remains.
Pop(rows, idx) ==
    [j \in 1..(Len(rows) - 1) |-> IF j <= idx THEN rows[j] ELSE rows[j + 1]]

\* Mutant of AppendRow: the file is opened with mode='w'.
AppendRowTruncating(row) ==
    file' = [exists |-> TRUE, lines |-> <<CsvWriteRow(row)>>]

\* open(FILENAME, mode='a') and writer.writerow(row).
AppendRow(row) ==
    file' = [exists |-> TRUE, lines |-> Append(file.lines, CsvWriteRow(row))]

\* "Add Expense" with the button pressed.  amount is the float of the number
\* input; the csv writer writes str(amount).
AddExpense(s, amount, category, note) ==
    /\ pc[s] = "idle"
    /\ LET date == Strftime(now)
       IN AppendRow(<<date, FormatFloat(amount), category, note>>)
    /\ form' = [form EXCEPT ![s] = [page |-> "add", amount |-> amount,
                                    category |-> category, note |-> note]]
    /\ out' = [out EXCEPT ![s] = Message("Expense added!")]
    /\ UNCHANGED <<now, salary, pc, expenses, call, stale>>

\* "Delete Expense", up to the Delete button: the store is read.
DeleteLoad(s) ==
    /\ pc[s] = "idle"
    /\ \E rows \in {read_expenses} :
          IF rows # <<>>
          THEN /\ expenses' = [expenses EXCEPT ![s] = rows]
               /\ pc' = [pc EXCEPT ![s] = "delete"]
               /\ UNCHANGED out
          ELSE /\ out' = [out EXCEPT ![s] = Message("No expenses to delete.")]
               /\ UNCHANGED <<pc, expenses>>
    /\ form' = [form EXCEPT ![s] = NoForm]
    /\ UNCHANGED <<file, now, salary, call, stale>>

\* "Delete Expense", the Delete button pressed: pop and rewrite.
DeleteSave(s, idx) ==
    /\ pc[s] = "delete"
    /\ idx \in 0..(Len(expenses[s]) - 1)
    /\ write_expenses(Pop(expenses[s], idx))
    /\ form' = [form EXCEPT ![s] = [page |-> "delete", idx |-> idx]]
    /\ out' = [out EXCEPT ![s] = Message("Deleted")]
    /\ pc' = [pc EXCEPT ![s] = "idle"]
    /\ expenses' = [expenses EXCEPT ![s] = <<>>]
    /\ stale' = (stale \/ expenses[s] # read_expenses)
    /\ UNCHANGED <<now, salary, call>>

\* "Edit Expense", up to the Save Changes button: the store is read.
EditLoad(s) ==
    /\ pc[s] = "idle"
    /\ \E rows \in {read_expenses} :
          IF rows # <<>>
          THEN /\ expenses' = [expenses EXCEPT ![s] = rows]
               /\ pc' = [pc EXCEPT ![s] = "edit"]
               /\ UNCHANGED out
          ELSE /\ out' = [out EXCEPT ![s] = Message("No expenses to edit.")]
               /\ UNCHANGED <<pc, expenses>>
    /\ form' = [form EXCEPT ![s] = NoForm]
    /\ UNCHANGED <<file, now, salary, call, stale>>

\* Mutant of EditedRow: the edit stamps the current time.
EditedRowRestamped(row, new_amount, new_category, new_note) ==
    <<Strftime(now), FormatFloat(ParseFloat(new_amount)), new_category, new_note>>

\* expenses[idx] = [date, float(new_amount), new_category, new_note]; the
\* float is written as str(float) by the csv writer.
EditedRow(row, new_amount, new_category, new_note) ==
    <<row[1], FormatFloat(ParseFloat(new_amount)), new_category, new_note>>

\* "Edit Expense", Save Changes pressed.
EditSave(s, idx, new_amount, new_category, new_note) ==
    /\ pc[s] = "edit"
    /\ idx \in 0..(Len(expenses[s]) - 1)
    /\ IF is_valid_amount(new_amount)
       THEN /\ write_expenses([expenses[s] EXCEPT ![idx + 1] =
                  EditedRow(expenses[s][idx + 1], new_amount, new_category, new_note)])
            /\ out' = [out EXCEPT ![s] = Message("Expense updated.")]
            /\ stale' = (stale \/ expenses[s] # read_expenses)
       ELSE /\ out' = [out EXCEPT ![s] = Message("Invalid amount entered.")]
            /\ UNCHANGED <<file, stale>>
    /\ form' = [form EXCEPT ![s] = [page |-> "edit", idx |-> idx,
                   new_amount |-> new_amount, new_category |-> new_category,
                   new_note |-> new_note]]
    /\ pc' = [pc EXCEPT ![s] = "idle"]
    /\ expenses' = [expenses EXCEPT ![s] = <<>>]
    /\ UNCHANGED <<now, salary, call>>

\* Time passes.
Tick(horizon) ==
    /\ now # horizon
    /\ now' = NextMonth(now)
    /\ UNCHANGED <<file, salary, pc, expenses, form, out, call, stale>>

\* ------------------------------------------------------------ input domains

\* Amounts of the number input of "Add Expense" (min_value=0.0).
AddAmounts == {Fin(250)}
\* Texts typed into the amount field of "Edit Expense".
AmountTexts == {<<"-", "3">>, <<"n", "a", "n">>, <<"i", "n", "f">>, <<"x">>}
Categories == {<<"a">>, <<"b", ",", "\"">>}
Notes == {<<>>}

\* The inputs of two sessions that share the store.
\* Each session adds under a category of its own, which tells its rows from
\* the other's; both edit to the same amount and category.
ConcAddCategory == <<<<"a">>, <<"b">>>>
ConcAmountTexts == {<<"7">>}
ConcCategories == {<<"a">>}

Init ==
    /\ file = NoFile
    /\ now = Epoch
    /\ salary = [s \in Sessions |-> None]
    /\ pc = [s \in Sessions |-> "idle"]
    /\ expenses = [s \in Sessions |-> <<>>]
    /\ form = [s \in Sessions |-> NoForm]
    /\ out = [s \in Sessions |-> Blank]
    /\ call = NoCall
    /\ stale = FALSE

\* One user: every run of main() ends before the next one starts.
Next ==
    \/ \E amount \in AddAmounts, category \in Categories, note \in Notes :
          /\ Len(file.lines) < MaxLen
          /\ AddExpense(1, amount, category, note)
    \/ DeleteLoad(1)
    \/ \E idx \in 0..(Len(expenses[1]) - 1) : DeleteSave(1, idx)
    \/ EditLoad(1)
    \/ \E idx \in 0..(Len(expenses[1]) - 1), new_amount \in AmountTexts,
          new_category \in Categories, new_note \in Notes :
          EditSave(1, idx, new_amount, new_category, new_note)
    \/ Tick(StoreHorizon)

Spec == Init /\ [][Next]_vars

\* Two sessions: their runs interleave at the reads and writes of the file.
ConcNext ==
    \E s \in Sessions :
       \/ \E amount \in AddAmounts, category \in {ConcAddCategory[s]}, note \in Notes :
             /\ Len(file.lines) < MaxConcLen
             /\ AddExpense(s, amount, category, note)
       \/ DeleteLoad(s)
       \/ \E idx \in 0..(Len(expenses[s]) - 1) : DeleteSave(s, idx)
       \/ EditLoad(s)
       \/ \E idx \in 0..(Len(expenses[s]) - 1), new_amount \in ConcAmountTexts,
             new_category \in ConcCategories, new_note \in Notes :
             EditSave(s, idx, new_amount, new_category, new_note)

SpecConc == Init /\ [][ConcNext]_vars

\* ----------------------------------------------------------- report engine

\* sum(float(row[1]) for row in rows), from the int 0.
RECURSIVE SumFrom(_, _)
SumFrom(acc, rows) ==
    IF rows = <<>> THEN acc
    ELSE SumFrom(FAdd(acc, ParseFloat(Head(rows)[2])), Tail(rows))

Total(rows) == SumFrom(Fin(0), rows)

NoExpensesText == "No expenses recorded. Start tracking to understand your habits."
PraiseText == "You're doing great! Keep up the low spending habits."
CautionText == "You're managing fairly well, but review any non-essentials."
StrictText == "Consider budgeting more strictly and cutting excesses."
HighText == "Warning: High spending! Analyze where most of your money is going."
ExceededText == " You have exceeded your budget of R{budget:.2f}. Consider cutting back next month."
WithinText == " You are within your budget of R{budget:.2f}. Well done!"

\* One piece of the feedback string: a fixed text, or an f-string with the
\* budget it formats.
Part(text, budget) == [text |-> text, budget |-> budget]

\* Mutant of TierMessage: the thresholds are compared with <=.
TierMessageInclusive(total) ==
    IF FLt(total, Fin(100000)) \/ FEq(total, Fin(100000)) THEN PraiseText
    ELSE IF FLt(total, Fin(500000)) \/ FEq(total, Fin(500000)) THEN CautionText
    ELSE IF FLt(total, Fin(1000000)) \/ FEq(total, Fin(1000000)) THEN StrictText
    ELSE HighText

\* The if/elif chain of financial_feedback on a total that is not 0.
TierMessage(total) ==
    IF FLt(total, Fin(100000)) THEN PraiseText
    ELSE IF FLt(total, Fin(500000)) THEN CautionText
    ELSE IF FLt(total, Fin(1000000)) THEN StrictText
    ELSE HighText

\* Mutant of BudgetClause: the budget counts as exceeded from total >= budget.
BudgetClauseInclusive(total, budget) ==
    IF Truthy(budget)
    THEN IF FGt(total, budget) \/ FEq(total, budget)
         THEN <<Part(ExceededText, budget)>>
         ELSE <<Part(WithinText, budget)>>
    ELSE <<>>

\* The `if budget:` block of financial_feedback.
BudgetClause(total, budget) ==
    IF Truthy(budget)
    THEN IF FGt(total, budget)
         THEN <<Part(ExceededText, budget)>>
         ELSE <<Part(WithinText, budget)>>
    ELSE <<>>

\* financial_feedback(total, budget): the pieces of the returned string.
financial_feedback(total, budget) ==
    IF FEq(total, Fin(0)) THEN <<Part(NoExpensesText, None)>>
    ELSE <<Part(TierMessage(total), None)>> \o BudgetClause(total, budget)

\* (total / salary) * 100, kept as a fraction; nan and the infinities of a
\* total pass through the division by a positive finite salary.
percent_used(total, sal) ==
    IF total.k = "fin" THEN [k |-> "ratio", num |-> total.v * 100, den |-> sal.v]
    ELSE total

\* percent_used > 70.
Over70(p) ==
    CASE p.k = "ratio" -> p.num > 70 * p.den
      [] p.k = "inf" -> p.v > 0
      [] OTHER -> FALSE

\* The salary block of "View Total" and of the report: which box is shown.
Usage(total, sal) ==
    IF Truthy(sal)
    THEN [level |-> IF Over70(percent_used(total, sal)) THEN "warning" ELSE "success",
          salary |-> sal]
    ELSE [level |-> "info", salary |-> sal]

\* Mutant of SalarySetup: the input is stored without the `if salary_input:`.
SalarySetupUnguarded(s, salary_input) ==
    /\ pc[s] = "idle"
    /\ salary' = [salary EXCEPT ![s] = salary_input]
    /\ UNCHANGED <<file, now, pc, expenses, form, out, call, stale>>

\* The sidebar's salary input changes.
SalarySetup(s, salary_input) ==
    /\ pc[s] = "idle"
    /\ salary' = [salary EXCEPT ![s] =
                     IF Truthy(salary_input) THEN salary_input ELSE @]
    /\ UNCHANGED <<file, now, pc, expenses, form, out, call, stale>>

\* "View Total".
ViewTotal(s) ==
    /\ pc[s] = "idle"
    /\ \E total \in {Total(read_expenses)} :
          out' = [out EXCEPT ![s] = [view |-> "total", total |-> total,
                                      usage |-> Usage(total, salary[s])]]
    /\ form' = [form EXCEPT ![s] = [page |-> "total"]]
    /\ UNCHANGED <<file, now, salary, pc, expenses, call, stale>>

\* Mutant of Summarize: the amount is assigned, not added.
RECURSIVE SummarizeAssigning(_, _)
SummarizeAssigning(summary, rows) ==
    IF rows = <<>> THEN summary
    ELSE LET category == Head(rows)[3]
         IN SummarizeAssigning(
                [c \in DOMAIN summary \cup {category} |->
                    IF c = category THEN ParseFloat(Head(rows)[2]) ELSE summary[c]],
                Tail(rows))

\* summary = defaultdict(float); summary[row[2]] += float(row[1]) per row.
RECURSIVE Summarize(_, _)
Summarize(summary, rows) ==
    IF rows = <<>> THEN summary
    ELSE LET category == Head(rows)[3]
             old == IF category \in DOMAIN summary THEN summary[category] ELSE Fin(0)
         IN Summarize(
                [c \in DOMAIN summary \cup {category} |->
                    IF c = category THEN FAdd(old, ParseFloat(Head(rows)[2]))
                    ELSE summary[c]],
                Tail(rows))

\* "Summary by Category".
SummaryByCategory(s) ==
    /\ pc[s] = "idle"
    /\ out' = [out EXCEPT ![s] =
                  [view |-> "summary", summary |-> Summarize(<<>>, read_expenses)]]
    /\ form' = [form EXCEPT ![s] = [page |-> "summary"]]
    /\ UNCHANGED <<file, now, salary, pc, expenses, call, stale>>

TimeRanges == {"This Month", "This Year", "All Time"}

\* The records the report evaluates.
Filtered(rows, time_range) ==
    IF time_range = "This Month"
    THEN SelectSeq(rows, LAMBDA e : Strptime(e[1]).month = now.month
                                    /\ Strptime(e[1]).year = now.year)
    ELSE IF time_range = "This Year"
    THEN SelectSeq(rows, LAMBDA e : Strptime(e[1]).year = now.year)
    ELSE rows

\* "Financial Management Report".
Report(s, time_range, budget) ==
    /\ pc[s] = "idle"
    /\ \E rows \in {read_expenses} :
       \E total \in {Total(Filtered(rows, time_range))} :
          IF rows # <<>>
          THEN out' = [out EXCEPT ![s] =
                          [view |-> "report", time_range |-> time_range,
                           total |-> total,
                           feedback |-> financial_feedback(total, budget),
                           usage |-> Usage(total, salary[s])]]
          ELSE out' = [out EXCEPT ![s] = Message("No data to evaluate.")]
    /\ form' = [form EXCEPT ![s] = [page |-> "report", time_range |-> time_range,
                                    budget |-> budget]]
    /\ UNCHANGED <<file, now, salary, pc, expenses, call, stale>>

\* A call financial_feedback(total, budget) from outside main().
FeedbackCall ==
    /\ call.feedback = <<>>
    /\ call' = [call EXCEPT !.feedback = financial_feedback(call.total, call.budget)]
    /\ UNCHANGED <<file, now, salary, pc, expenses, form, out, stale>>

\* ----------------------------------------------- the views' input domains

\* Amounts a store can hold: Add writes the non-negative ones, Edit the rest.
ReportAmounts == {Fin(0), Fin(30000), Fin(70000), Fin(500000), Fin(-300), NaN}
ReportCategories == {<<"a">>}
\* Values of the number inputs (min_value=0.0) for the budget and the salary.
Budgets == {Fin(0), Fin(100000)}
SalaryInputs == {Fin(0), Fin(100000)}

RECURSIVE MonthsUpTo(_, _)
MonthsUpTo(t, last) ==
    IF t = last THEN {t} ELSE {t} \cup MonthsUpTo(NextMonth(t), last)

\* The stores of at most n rows, each row written by csv.writer.
Stores(rowSet, n) ==
    {NoFile} \cup
    {[exists |-> TRUE, lines |-> [i \in DOMAIN rows |-> CsvWriteRow(rows[i])]] :
        rows \in UNION {[1..k -> rowSet] : k \in 0..n}}

ReportRows(t) ==
    {<<Strftime(d), FormatFloat(a), c, <<>>>> :
        d \in MonthsUpTo(Epoch, t), a \in ReportAmounts, c \in ReportCategories}

ReportInit ==
    /\ now \in MonthsUpTo(Epoch, ReportHorizon)
    /\ file \in Stores(ReportRows(now), MaxReportLen)
    /\ salary = [s \in Sessions |-> None]
    /\ pc = [s \in Sessions |-> "idle"]
    /\ expenses = [s \in Sessions |-> <<>>]
    /\ form = [s \in Sessions |-> NoForm]
    /\ out = [s \in Sessions |-> Blank]
    /\ call = NoCall
    /\ stale = FALSE

ReportNext ==
    \/ \E salary_input \in SalaryInputs : SalarySetup(1, salary_input)
    \/ ViewTotal(1)
    \/ \E time_range \in TimeRanges, budget \in Budgets : Report(1, time_range, budget)
    \/ Tick(ReportHorizon)

\* The reporting views of one user on a store that other actions filled.
SpecReport == ReportInit /\ [][ReportNext]_vars

SummaryAmounts == {Fin(250), Fin(700), NaN}
SummaryCategories == {<<"a">>, <<"A">>, <<"b">>}

SummaryRows ==
    {<<Strftime(Epoch), FormatFloat(a), c, <<>>>> :
        a \in SummaryAmounts, c \in SummaryCategories}

SummaryInit ==
    /\ now = Epoch
    /\ file \in Stores(SummaryRows, MaxSummaryLen)
    /\ salary = [s \in Sessions |-> None]
    /\ pc = [s \in Sessions |-> "idle"]
    /\ expenses = [s \in Sessions |-> <<>>]
    /\ form = [s \in Sessions |-> NoForm]
    /\ out = [s \in Sessions |-> Blank]
    /\ call = NoCall
    /\ stale = FALSE

SummaryNext == SummaryByCategory(1) \/ ViewTotal(1)

\* The category summary and the total of one user on such a store.
SpecSummary == SummaryInit /\ [][SummaryNext]_vars

\* Totals and budgets financial_feedback is called with.
FeedbackTotals ==
    {Fin(0), Fin(1), Fin(-300), Fin(99999), Fin(100000), Fin(100001),
     Fin(499999), Fin(500000), Fin(999999), Fin(1000000), Fin(1000001),
     NaN, PosInf, NegInf}
FeedbackBudgets == {None, Fin(0), Fin(1), Fin(100000), Fin(1000000)}

FeedbackInit ==
    /\ file = NoFile
    /\ now = Epoch
    /\ salary = [s \in Sessions |-> None]
    /\ pc = [s \in Sessions |-> "idle"]
    /\ expenses = [s \in Sessions |-> <<>>]
    /\ form = [s \in Sessions |-> NoForm]
    /\ out = [s \in Sessions |-> Blank]
    /\ call \in {[total |-> t, budget |-> b, feedback |-> <<>>] :
                    t \in FeedbackTotals, b \in FeedbackBudgets}
    /\ stale = FALSE

\* financial_feedback alone, on each total and budget.
SpecFeedback == FeedbackInit /\ [][FeedbackCall]_vars

\* ---------------------------------------------------- claims on the store

\* The run of session 1 that ends in this step pressed Delete.
DeleteStep == pc[1] = "delete" /\ pc'[1] = "idle"
\* The run of session 1 that ends in this step pressed Save Changes.
EditStep == pc[1] = "edit" /\ pc'[1] = "idle"
\* This step is an Add Expense of session 1.
AddStep == pc[1] = "idle" /\ pc'[1] = "idle" /\ file' # file

C2_EditReplacesPosition ==
    [][(EditStep /\ ParseFloat(form'[1].new_amount) # ValueError) =>
         \A before \in {ReadFile(file)}, after \in {ReadFile(file')},
            i \in {form'[1].idx} :
            /\ Len(after) = Len(before)
            /\ 0 <= i /\ i < Len(before)
            /\ Len(after[i + 1]) = 4
            /\ after[i + 1][1] = before[i + 1][1]
            /\ ParseFloat(after[i + 1][2]) = ParseFloat(form'[1].new_amount)
            /\ after[i + 1][3] = form'[1].new_category
            /\ after[i + 1][4] = form'[1].new_note
            /\ \A j \in 1..Len(after) : j # i + 1 => after[j] = before[j]]_vars

\* An edit of a record entered at an earlier time was saved, in a store that
\* holds another record.
C2_Witness ==
    /\ out[1] = Message("Expense updated.")
    /\ form[1].page = "edit"
    /\ Len(file.lines) >= 2
    /\ ReadFile(file)[form[1].idx + 1][1] # Strftime(now)

\* The amount of a stored row is a finite number that is not negative.
AmountOk(row) ==
    LET a == ParseFloat(row[2]) IN a.k = "fin" /\ a.v >= 0

\* C3: every record of the persisted store has a finite non-negative amount.
C3_StoredAmountsValid ==
    \A j \in 1..Len(file.lines) : AmountOk(ReadFile(file)[j])

\* C4: Save Changes with an amount float() rejects reports the error and
\* leaves the file as it was.
C4_RejectedEditKeepsStore ==
    [][(EditStep /\ ParseFloat(form'[1].new_amount) = ValueError) =>
         /\ file' = file
         /\ out'[1] = Message("Invalid amount entered.")]_vars

\* An edit was rejected on a store that holds records.
C4_Witness ==
    /\ out[1] = Message("Invalid amount entered.")
    /\ form[1].page = "edit"
    /\ ParseFloat(form[1].new_amount) = ValueError
    /\ Len(file.lines) >= 1

\* C5: Add Expense leaves the store as it was, followed by one new record
\* [submission timestamp, amount, category, note].
C5_AddAppendsOne ==
    [][AddStep =>
         \A before \in {ReadFile(file)}, after \in {ReadFile(file')} :
            /\ Len(after) = Len(before) + 1
            /\ \A j \in 1..Len(before) : after[j] = before[j]
            /\ \A new \in {after[Len(after)]} :
                  /\ Len(new) = 4
                  /\ new[1] = Strftime(now)
                  /\ ParseFloat(new[2]) = form'[1].amount
                  /\ new[3] = form'[1].category
                  /\ new[4] = form'[1].note]_vars

\* A record was added to a store that already held one.
C5_Witness ==
    /\ out[1] = Message("Expense added!")
    /\ form[1].page = "add"
    /\ Len(file.lines) >= 2

\* ---------------------------------------------------- claims on the views

TierTexts == {NoExpensesText, PraiseText, CautionText, StrictText, HighText}

\* The feedback starts with the one tier message the thresholds give total.
TierChosen(total, feedback) ==
    /\ feedback # <<>>
    /\ \A head \in {feedback[1].text} :
          /\ head \in TierTexts
          /\ FEq(total, Fin(0)) => head = NoExpensesText
          /\ (~FEq(total, Fin(0)) /\ FLt(total, Fin(100000))) => head = PraiseText
          /\ (FGe(total, Fin(100000)) /\ FLt(total, Fin(500000))) => head = CautionText
          /\ (FGe(total, Fin(500000)) /\ FLt(total, Fin(1000000))) => head = StrictText
          /\ FGe(total, Fin(1000000)) => head = HighText
    /\ \A j \in 2..Len(feedback) : feedback[j].text \notin TierTexts

\* C6 as stated: the tier message follows the thresholds, and the report on
\* an empty store shows total 0 with the "No expenses recorded" message.
C6_EmptyStoreShowsNoExpenses ==
    /\ out[1].view = "report" => TierChosen(out[1].total, out[1].feedback)
    /\ (form[1].page = "report" /\ ReadFile(file) = <<>>) =>
          /\ out[1].view = "report"
          /\ out[1].total = Fin(0)
          /\ out[1].feedback[1].text = NoExpensesText

\* C6, amended: whenever the report shows feedback, it starts with the one
\* tier message the thresholds give its total, so a selection without
\* records totals 0 and gets "No expenses recorded"; an empty store totals 0
\* in View Total, and the report on it shows "No data to evaluate." instead
\* of any feedback.
C6_ReportFeedbackTier ==
    /\ out[1].view = "report" =>
          /\ TierChosen(out[1].total, out[1].feedback)
          /\ ReadFile(file) # <<>>
    /\ (form[1].page = "report" /\ ReadFile(file) = <<>>) =>
          out[1] = Message("No data to evaluate.")
    /\ (form[1].page = "total" /\ ReadFile(file) = <<>>) =>
          out[1].total = Fin(0)

\* The report for "This Month" on a store whose only record, of amount 5000,
\* is of an earlier month: total 0 and "No expenses recorded".
C6_Witness ==
    /\ out[1].view = "report"
    /\ out[1].time_range = "This Month"
    /\ Len(file.lines) = 1
    /\ ParseFloat(ReadFile(file)[1][2]) = Fin(500000)
    /\ Strptime(ReadFile(file)[1][1]) # now
    /\ out[1].total = Fin(0)
    /\ out[1].feedback = <<Part(NoExpensesText, None)>>

\* C7 as stated: with a budget supplied (not None, not 0) the feedback ends
\* with the exceeded clause when total > budget and with the within clause
\* when total <= budget, for every total; without one it has no clause.
C7_BudgetClauseForEveryTotal ==
    call.feedback # <<>> =>
       IF Truthy(call.budget)
       THEN /\ Len(call.feedback) = 2
            /\ FGt(call.total, call.budget) =>
                  call.feedback[2] = Part(ExceededText, call.budget)
            /\ FLe(call.total, call.budget) =>
                  call.feedback[2] = Part(WithinText, call.budget)
       ELSE Len(call.feedback) = 1

\* C7, amended: for a total that is not 0 the clause is as stated (the within
\* clause also for a total that is not a number); a total of 0 gives the
\* no-expenses message alone, whatever the budget.
C7_BudgetClauseUnlessZero ==
    call.feedback # <<>> =>
       IF FEq(call.total, Fin(0))
       THEN call.feedback = <<Part(NoExpensesText, None)>>
       ELSE IF Truthy(call.budget)
       THEN /\ Len(call.feedback) = 2
            /\ call.feedback[2] =
                  Part(IF FGt(call.total, call.budget) THEN ExceededText
                       ELSE WithinText, call.budget)
       ELSE Len(call.feedback) = 1

\* A total just above its budget got the exceeded clause.
C7_Witness ==
    /\ call.total = Fin(100001)
    /\ call.budget = Fin(100000)
    /\ Len(call.feedback) = 2
    /\ call.feedback[2].text = ExceededText

\* C8: the session salary is None or strictly positive; the views take the
\* percentage only of such a positive salary, warn exactly when the total
\* exceeds 70 percent of it and reassure otherwise.
C8_SalaryGuard ==
    /\ salary[1] = None \/ (salary[1].k = "fin" /\ salary[1].v > 0)
    /\ out[1].view \in {"total", "report"} =>
          \A u \in {out[1].usage}, total \in {out[1].total} :
             IF u.salary = None THEN u.level = "info"
             ELSE /\ u.salary.k = "fin" /\ u.salary.v > 0
                  /\ u.level \in {"warning", "success"}
                  /\ u.level = "warning" <=>
                        CASE total.k = "fin" -> 100 * total.v > 70 * u.salary.v
                          [] total.k = "inf" -> total.v > 0
                          [] OTHER -> FALSE

\* With a salary of 1000 a total of exactly 700 was reassured.
C8_Witness ==
    /\ salary[1] = Fin(100000)
    /\ out[1].view = "total"
    /\ out[1].total = Fin(70000)
    /\ out[1].usage.level = "success"

\* The sum of the values of a category summary.
RECURSIVE SumValues(_, _)
SumValues(summary, categories) ==
    IF categories = {} THEN Fin(0)
    ELSE LET c == CHOOSE x \in categories : TRUE
         IN FAdd(summary[c], SumValues(summary, categories \ {c}))

C10_StaleRewriteWins ==
    [][\A s \in Sessions :
         (pc[s] # "idle" /\ pc'[s] = "idle") =>
            \A read \in {expenses[s]}, before \in {ReadFile(file)} :
               read # before =>
                  \A after \in {ReadFile(file')}, f \in {form'[s]} :
                     IF f.page = "delete"
                     THEN /\ after = [j \in 1..(Len(read) - 1) |->
                                         IF j <= f.idx THEN read[j] ELSE read[j + 1]]
                          /\ \A j \in 1..Len(before) :
                                (\A k \in 1..Len(read) : read[k] # before[j]) =>
                                   (\A k \in 1..Len(after) : after[k] # before[j])
                          /\ out'[s] = Message("Deleted")
                     ELSE /\ Len(after) = Len(read)
                          /\ \A j \in 1..Len(after) :
                                j # f.idx + 1 => after[j] = read[j]
                          /\ after[f.idx + 1][1] = read[f.idx + 1][1]
                          /\ ParseFloat(after[f.idx + 1][2]) = ParseFloat(f.new_amount)
                          /\ \A j \in 1..Len(before) :
                                (/\ \A k \in 1..Len(read) : read[k] # before[j]
                                 /\ before[j] # after[f.idx + 1]) =>
                                   (\A k \in 1..Len(after) : after[k] # before[j])
                          /\ out'[s] = Message("Expense updated.")]_vars

\* Session 2 added a record after session 1 read the store for a delete;
\* session 1's rewrite then left the store empty, and both saw success.
C10_Witness ==
    /\ stale
    /\ out[1] = Message("Deleted")
    /\ out[2] = Message("Expense added!")
    /\ form[2].page = "add" /\ form[2].category = <<"b">>
    /\ file.exists /\ file.lines = <<>>

====
